---- MODULE Spec2Model ----
(* A model of the rocket-rate-limit fairing (src/src/lib.rs): the registry  *)
(* of per-route limiter configs, the admission evaluation of a request, and  *)
(* the two-phase on_request / on_response interception.                      *)
EXTENDS Integers, Sequences, FiniteSets, TLC

(* ---------------------------------------------------------------------- *)
(* Bounds of the model                                                      *)
(* ---------------------------------------------------------------------- *)
MaxRules == 2
MaxBatch == 2
MaxPriority == 1
MaxBurst == 1
NumReqs == 2
MaxTime == 1
ReplenishTicks == 2

(* Clock ticks per millisecond: Duration::as_millis truncates the finer     *)
(* clock unit to whole milliseconds.                                        *)
TicksPerMs == 2

(* ---------------------------------------------------------------------- *)
(* Constants of the program and of its collaborators                        *)
(* ---------------------------------------------------------------------- *)
(* A reserved path that collides with an application route.                 *)
DUMMY_HANDLER_URI_colliding == "/a"

DUMMY_HANDLER_URI == "/rate-limiter-handler-ZoIGMRpd2xPAOawvWc2T8m9Hs33E3kX8"

NoName == "<unnamed>"
NoKey == "<none>"
NoState == -1

(* The host's routing table, in dispatch order: a named route and a route   *)
(* without a name. No application route matches the reserved path.          *)
Routes ==
  << [path |-> "/a", name |-> "a"],
     [path |-> "/u", name |-> NoName] >>

RouteNames == {"a", "b"}
Paths == {"/a", "/u", DUMMY_HANDLER_URI}
ClientIps == {NoKey, "ip1"}
Filters == {"ip", "fixed"}
Keys == {"ip1", "k"}
Reqs == 1..NumReqs
CfgIds == 1..(MaxRules + 1)

VARIABLES
  configs,      \* RateLimit.configs: route name -> Vec<RateLimitConfig>
  registered,   \* history: route name -> every config passed to add, in call order
  nextId,       \* identity of the next RateLimitConfig (its own limiter instance)
  started,      \* the fairing is attached and the server accepts requests
  tat,          \* keyed limiter state of each config: key -> theoretical arrival time
  now,          \* the monotonic clock
  pc,           \* position of each request in its lifecycle
  path,         \* the path the client asked for
  client_ip,    \* req.client_ip()
  uri,          \* req.uri().path(), as on_request may have overwritten it
  idx,          \* position of the loop of check_rate_limit in the rule list
  cache,        \* req.local_cache cell of type Option<RateLimitResponse>
  res,          \* the response
  handledBy,    \* index in Routes of the handler that ran (0: none / not found)
  trace         \* history: the rules check_rate_limit evaluated for the request

vars == << configs, registered, nextId, started, tat, now, pc, path,
           client_ip, uri, idx, cache, res, handledBy, trace >>

(* ---------------------------------------------------------------------- *)
(* Helpers                                                                  *)
(* ---------------------------------------------------------------------- *)
Max(a, b) == IF a >= b THEN a ELSE b
Min(a, b) == IF a <= b THEN a ELSE b

(* Option<RateLimitResponse> *)
None == [some |-> FALSE, retry_after |-> 0]
Some(ms) == [some |-> TRUE, retry_after |-> ms]

(* A request-local cache cell: uninitialised, or holding a value.           *)
EmptyCell == [init |-> FALSE, value |-> None]

(* local_cache, had it replaced the value the cell already holds.           *)
local_cache_overwrite(cell, v) == [init |-> TRUE, value |-> v]

(* Request::local_cache(f): initialise the cell with f() if it is empty;    *)
(* the cell keeps the first value it was given.                             *)
local_cache(cell, v) == IF cell.init THEN cell ELSE [init |-> TRUE, value |-> v]

(* Duration::as_millis: whole milliseconds, truncated.                      *)
as_millis(d) == d \div TicksPerMs

(* u128::to_string: decimal digits.                                         *)
Digit(n) == CASE n = 0 -> "0" [] n = 1 -> "1" [] n = 2 -> "2" [] n = 3 -> "3"
              [] n = 4 -> "4" [] n = 5 -> "5" [] n = 6 -> "6" [] n = 7 -> "7"
              [] n = 8 -> "8" [] n = 9 -> "9"
RECURSIVE to_string(_)
to_string(n) == IF n < 10 THEN Digit(n)
                ELSE to_string(n \div 10) \o Digit(n % 10)

(* ---------------------------------------------------------------------- *)
(* Registry                                                                 *)
(* ---------------------------------------------------------------------- *)
(* RateLimitConfig: a limiter (identified by id), a key filter, a priority. *)
RateLimitConfig(id, filter, priority, burst) ==
  [id |-> id, filter |-> filter, priority |-> priority, burst |-> burst]

(* Insert x behind every element whose priority is >= x.priority.           *)
RECURSIVE InsertDesc(_, _)
InsertDesc(x, s) ==
  IF s = << >> THEN << x >>
  ELSE IF Head(s).priority >= x.priority
       THEN << Head(s) >> \o InsertDesc(x, Tail(s))
       ELSE << x >> \o s

(* items.sort_by(|a, b| b.priority.cmp(&a.priority)): a stable sort.        *)
RECURSIVE SortFrom(_, _)
SortFrom(sorted, rest) ==
  IF rest = << >> THEN sorted
  ELSE SortFrom(InsertDesc(Head(rest), sorted), Tail(rest))

(* sort_by_priority, had the combined list been left as appended.           *)
sort_by_priority_unsorted(items) == items

sort_by_priority(items) == SortFrom(<< >>, items)

(* The configs of one batch, ids in batch order.                            *)
Batch(len, ps, fs, bs) ==
  [i \in 1..len |-> RateLimitConfig(nextId + i - 1, fs[i], ps[i], bs[i])]

(* add, had a batch for a registered name replaced the list of that name.   *)
add_replace(route_name, items) ==
  /\ ~started
  /\ configs' =
       [n \in DOMAIN configs \cup {route_name} |->
          IF n = route_name THEN sort_by_priority(items) ELSE configs[n]]
  /\ registered' =
       [n \in DOMAIN registered \cup {route_name} |->
          IF n = route_name
          THEN (IF n \in DOMAIN registered THEN registered[n] ELSE << >>) \o items
          ELSE registered[n]]
  /\ nextId' = nextId + Len(items)
  /\ UNCHANGED << started, tat, now, pc, path, client_ip, uri, idx, cache,
                  res, handledBy, trace >>

add(route_name, items) ==
  /\ ~started
  /\ configs' =
       IF route_name \in DOMAIN configs
       THEN [configs EXCEPT ![route_name] = sort_by_priority(@ \o items)]
       ELSE [n \in DOMAIN configs \cup {route_name} |->
               IF n = route_name THEN items ELSE configs[n]]
  /\ registered' =
       [n \in DOMAIN registered \cup {route_name} |->
          IF n = route_name
          THEN (IF n \in DOMAIN registered THEN registered[n] ELSE << >>) \o items
          ELSE registered[n]]
  /\ nextId' = nextId + Len(items)
  /\ UNCHANGED << started, tat, now, pc, path, client_ip, uri, idx, cache,
                  res, handledBy, trace >>

Add ==
  \E route_name \in RouteNames, len \in 0..MaxBatch :
    \E ps \in [1..len -> 0..MaxPriority], fs \in [1..len -> Filters],
       bs \in [1..len -> 1..MaxBurst] :
      /\ nextId + len - 1 <= MaxRules
      /\ add(route_name, Batch(len, ps, fs, bs))

(* The fairing is attached and the server launched: add takes &mut self,    *)
(* so no registration happens once requests are served.                     *)
Launch ==
  /\ ~started
  /\ started' = TRUE
  /\ UNCHANGED << configs, registered, nextId, tat, now, pc, path, client_ip,
                  uri, idx, cache, res, handledBy, trace >>

(* ---------------------------------------------------------------------- *)
(* Collaborators: routing table, key filters, keyed limiter, clock          *)
(* ---------------------------------------------------------------------- *)
(* routes().find(|route| route.matches(req)): index of the first match, 0   *)
(* when no route matches.                                                   *)
FindRoute(p) ==
  IF \E i \in DOMAIN Routes : Routes[i].path = p
  THEN CHOOSE i \in DOMAIN Routes :
         /\ Routes[i].path = p
         /\ \A j \in 1..(i - 1) : Routes[j].path # p
  ELSE 0

(* What the host answers for the handler of route i (0: not found).         *)
HandlerResponse(i) ==
  IF i = 0
  THEN [status |-> 404, retry_after |-> NoKey, body |-> "not found", length |-> 9]
  ELSE [status |-> 200, retry_after |-> NoKey, body |-> Routes[i].path, length |-> 2]

(* KeyFilter::key: IpKeyFilter yields the client address if there is one;   *)
(* a custom filter yielding one constant key.                               *)
key(filter, r) == IF filter = "ip" THEN client_ip[r] ELSE "k"

(* ConfigsFor, had a request without a rule set of its own fallen back to   *)
(* the rules of some registered name.                                       *)
ConfigsFor_fallback(p) ==
  IF /\ FindRoute(p) # 0
     /\ Routes[FindRoute(p)].name # NoName
     /\ Routes[FindRoute(p)].name \in DOMAIN configs
  THEN configs[Routes[FindRoute(p)].name]
  ELSE IF DOMAIN configs # {}
       THEN configs[CHOOSE n \in DOMAIN configs : TRUE]
       ELSE << >>

(* The configs check_rate_limit looks up for a path; << >> stands for the   *)
(* early return of the `?` operator.                                        *)
HasConfigs(p) ==
  /\ FindRoute(p) # 0
  /\ Routes[FindRoute(p)].name # NoName
  /\ Routes[FindRoute(p)].name \in DOMAIN configs

ConfigsFor(p) == IF HasConfigs(p) THEN configs[Routes[FindRoute(p)].name] ELSE << >>

(* governor's GCRA for one cell: t = ReplenishTicks, tau = t * burst.       *)
(* Tat, had the limiter kept one state for all keys.                        *)
Tat_any_key(cfg, k, t0) ==
  IF \A j \in DOMAIN tat[cfg.id] : tat[cfg.id][j] = NoState
  THEN t0 + ReplenishTicks
  ELSE CHOOSE x \in {tat[cfg.id][j] : j \in DOMAIN tat[cfg.id]} :
         \A j \in DOMAIN tat[cfg.id] : tat[cfg.id][j] <= x

Tat(cfg, k, t0) == IF tat[cfg.id][k] = NoState THEN t0 + ReplenishTicks ELSE tat[cfg.id][k]
EarliestTime(cfg, k, t0) == Max(Tat(cfg, k, t0) - ReplenishTicks * cfg.burst, 0)
check_key_err(cfg, k, t0) == t0 < EarliestTime(cfg, k, t0)
(* NextTat, had an admitted check left the state of the key as it was.      *)
NextTat_unchanged(cfg, k, t0) == Tat(cfg, k, t0)

NextTat(cfg, k, t0) == Max(Tat(cfg, k, t0), t0) + ReplenishTicks

(* NotUntil::wait_time_from(from): saturating.                              *)
wait_time_from(earliest, from) == Max(earliest - from, 0)

Tick ==
  /\ now < MaxTime
  /\ now' = now + 1
  /\ UNCHANGED << configs, registered, nextId, started, tat, pc, path,
                  client_ip, uri, idx, cache, res, handledBy, trace >>

(* ---------------------------------------------------------------------- *)
(* Requests                                                                 *)
(* ---------------------------------------------------------------------- *)
Entry(cfg, pos, k, outcome, t0, earliest, t1, ms) ==
  [id |-> cfg.id, priority |-> cfg.priority, filter |-> cfg.filter,
   pos |-> pos, key |-> k,
   outcome |-> outcome, t0 |-> t0, earliest |-> earliest, t1 |-> t1,
   retry_after |-> ms]

(* NextPc, had the loop gone on after a rejection.                          *)
NextPc_no_return(outcome, last) == IF last THEN "routing" ELSE "eval"

(* NextPc, had a rule without a key ended the evaluation.                   *)
NextPc_skip_returns(outcome, last) ==
  IF outcome \in {"rejected", "skipped"} \/ last THEN "routing" ELSE "eval"

(* The pc of a request after one rule was evaluated: a rejection returns    *)
(* from check_rate_limit, a skip or a pass goes on to the next rule.        *)
NextPc(outcome, last) ==
  IF outcome = "rejected" \/ last THEN "routing" ELSE "eval"

(* on_request, after check_rate_limit returned result: a rejection          *)
(* overwrites the uri and is stored in the request-local cache.             *)
(* set_uri, had on_request retargeted every request.                        *)
set_uri_always(u, result) == DUMMY_HANDLER_URI

set_uri(u, result) == IF result.some THEN DUMMY_HANDLER_URI ELSE u
stash(cell, result) == IF result.some THEN local_cache(cell, result) ELSE cell

(* on_request up to the first key extraction: match the route and look up   *)
(* its configs; without configs check_rate_limit returns None at once.      *)
on_request(r, p, ip) ==
  /\ started
  /\ pc[r] = "idle"
  /\ \A q \in 1..(r - 1) : pc[q] # "idle"
  /\ path' = [path EXCEPT ![r] = p]
  /\ client_ip' = [client_ip EXCEPT ![r] = ip]
  /\ idx' = [idx EXCEPT ![r] = 1]
  /\ IF Len(ConfigsFor(p)) > 0
     THEN /\ pc' = [pc EXCEPT ![r] = "eval"]
          /\ uri' = [uri EXCEPT ![r] = p]
          /\ UNCHANGED cache
     ELSE /\ pc' = [pc EXCEPT ![r] = "routing"]
          /\ uri' = [uri EXCEPT ![r] = set_uri(p, None)]
          /\ cache' = [cache EXCEPT ![r] = stash(@, None)]
  /\ UNCHANGED << configs, registered, nextId, started, tat, now, res,
                  handledBy, trace >>

OnRequest == \E r \in Reqs, p \in Paths, ip \in ClientIps : on_request(r, p, ip)

(* units_after_reject, had a rejection given back the units the request    *)
(* took from the rules before the rejecting one.                            *)
units_after_reject_rollback(r) ==
  [c \in DOMAIN tat |->
     [k \in DOMAIN tat[c] |->
        IF \E i \in DOMAIN trace[r] :
             /\ trace[r][i].outcome = "passed"
             /\ trace[r][i].id = c
             /\ trace[r][i].key = k
        THEN NoState ELSE tat[c][k]]]

(* The limiter states after a rejection of request r: the early return     *)
(* touches no limiter, the units taken so far stay taken.                   *)
units_after_reject(r) == tat

(* next_rule, had the loop not moved on.                                    *)
next_rule_stuck(i) == i

(* The loop `for cfg in configs` moves on to the next rule.                 *)
next_rule(i) == i + 1

(* One iteration of the loop of check_rate_limit, resumed when the key      *)
(* filter of rule idx yields, and the rest of on_request once the loop      *)
(* returns. A rejection reads the clock again, after the limiter did.       *)
check_rate_limit(r, horizon) ==
  /\ pc[r] = "eval"
  /\ LET cfgs == ConfigsFor(path[r])
         cfg == cfgs[idx[r]]
         k == key(cfg.filter, r)
         last == idx[r] >= Len(cfgs)
     IN
       IF k = NoKey
       THEN /\ trace' = [trace EXCEPT ![r] =
                  Append(@, Entry(cfg, idx[r], k, "skipped", now, 0, now, 0))]
            /\ pc' = [pc EXCEPT ![r] = NextPc("skipped", last)]
            /\ uri' = [uri EXCEPT ![r] =
                  IF NextPc("skipped", last) = "routing" THEN set_uri(@, None) ELSE @]
            /\ UNCHANGED << tat, now, cache >>
       ELSE IF check_key_err(cfg, k, now)
       THEN \E t1 \in now..Max(now, Min(now + 1, horizon)) :
              LET earliest == EarliestTime(cfg, k, now)
                  ms == as_millis(wait_time_from(earliest, t1))
              IN
                /\ now' = t1
                /\ trace' = [trace EXCEPT ![r] =
                     Append(@, Entry(cfg, idx[r], k, "rejected", now, earliest, t1, ms))]
                /\ pc' = [pc EXCEPT ![r] = NextPc("rejected", last)]
                /\ uri' = [uri EXCEPT ![r] =
                     IF NextPc("rejected", last) = "routing"
                     THEN set_uri(@, Some(ms)) ELSE @]
                /\ cache' = [cache EXCEPT ![r] =
                     IF NextPc("rejected", last) = "routing"
                     THEN stash(@, Some(ms)) ELSE @]
                /\ tat' = units_after_reject(r)
       ELSE /\ tat' = [tat EXCEPT ![cfg.id][k] = NextTat(cfg, k, now)]
            /\ trace' = [trace EXCEPT ![r] =
                  Append(@, Entry(cfg, idx[r], k, "passed", now, 0, now, 0))]
            /\ pc' = [pc EXCEPT ![r] = NextPc("passed", last)]
            /\ uri' = [uri EXCEPT ![r] =
                  IF NextPc("passed", last) = "routing" THEN set_uri(@, None) ELSE @]
            /\ UNCHANGED << now, cache >>
  /\ idx' = [idx EXCEPT ![r] = next_rule(@)]
  /\ UNCHANGED << configs, registered, nextId, started, path, client_ip, res,
                  handledBy >>

CheckRateLimit == \E r \in Reqs : check_rate_limit(r, MaxTime)

(* The host routes the request by its current uri and runs the handler.     *)
dispatch(r) ==
  /\ pc[r] = "routing"
  /\ handledBy' = [handledBy EXCEPT ![r] = FindRoute(uri[r])]
  /\ res' = [res EXCEPT ![r] = HandlerResponse(FindRoute(uri[r]))]
  /\ pc' = [pc EXCEPT ![r] = "responding"]
  /\ UNCHANGED << configs, registered, nextId, started, tat, now, path,
                  client_ip, uri, idx, cache, trace >>

Dispatch == \E r \in Reqs : dispatch(r)

(* apply_rate_limit, had it kept the body of the handler.                   *)
apply_rate_limit_keep_body(response, rate_limit) ==
  [response EXCEPT !.status = 429,
                   !.retry_after = to_string(rate_limit.retry_after)]

apply_rate_limit(response, rate_limit) ==
  [status |-> 429, retry_after |-> to_string(rate_limit.retry_after),
   body |-> "", length |-> 0]

(* Rewritten, had it not looked whether a rejection was stored.             *)
Rewritten_unchecked(u, cell, response) ==
  IF u # DUMMY_HANDLER_URI THEN response
  ELSE apply_rate_limit(response, local_cache(cell, None).value)

(* The response on_response leaves for a request whose uri is u and whose   *)
(* cache cell is cell.                                                      *)
Rewritten(u, cell, response) ==
  IF u # DUMMY_HANDLER_URI THEN response
  ELSE IF local_cache(cell, None).value.some
       THEN apply_rate_limit(response, local_cache(cell, None).value)
       ELSE response

(* request_cache, had the cache been one for all requests: a stored         *)
(* rejection of any request is what every request reads.                    *)
request_cache_shared(r) ==
  IF \E q \in DOMAIN cache : cache[q].init /\ cache[q].value.some
  THEN cache[CHOOSE q \in DOMAIN cache : cache[q].init /\ cache[q].value.some]
  ELSE cache[r]

(* req.local_cache: the cell of the request itself.                         *)
request_cache(r) == cache[r]

on_response(r) ==
  /\ pc[r] = "responding"
  /\ cache' = [cache EXCEPT ![r] =
       IF uri[r] # DUMMY_HANDLER_URI THEN @
       ELSE local_cache(request_cache(r), None)]
  /\ res' = [res EXCEPT ![r] = Rewritten(uri[r], request_cache(r), @)]
  /\ pc' = [pc EXCEPT ![r] = "done"]
  /\ UNCHANGED << configs, registered, nextId, started, tat, now, path,
                  client_ip, uri, idx, handledBy, trace >>

OnResponse == \E r \in Reqs : on_response(r)

(* ---------------------------------------------------------------------- *)
(* Specification                                                            *)
(* ---------------------------------------------------------------------- *)
Init ==
  /\ configs = [n \in {} |-> << >>]
  /\ registered = [n \in {} |-> << >>]
  /\ nextId = 1
  /\ started = FALSE
  /\ tat = [c \in CfgIds |-> [k \in Keys |-> NoState]]
  /\ now = 0
  /\ pc = [r \in Reqs |-> "idle"]
  /\ path = [r \in Reqs |-> "/a"]
  /\ client_ip = [r \in Reqs |-> NoKey]
  /\ uri = [r \in Reqs |-> "/a"]
  /\ idx = [r \in Reqs |-> 1]
  /\ cache = [r \in Reqs |-> EmptyCell]
  /\ res = [r \in Reqs |-> HandlerResponse(0)]
  /\ handledBy = [r \in Reqs |-> 0]
  /\ trace = [r \in Reqs |-> << >>]

Next ==
  \/ Add
  \/ Launch
  \/ Tick
  \/ OnRequest
  \/ CheckRateLimit
  \/ Dispatch
  \/ OnResponse

Spec == Init /\ [][Next]_vars

(* A key filter asked for a key answers, and the host resumes the request   *)
(* that waited for it: the evaluation step of every request is weakly fair. *)
SpecLive == Spec /\ \A r \in Reqs : WF_vars(check_rate_limit(r, MaxTime))

(* ---------------------------------------------------------------------- *)
(* Cancellation: the host drops a request whose on_request is suspended at  *)
(* a key extraction. Nothing after the await runs for it.                   *)
(* ---------------------------------------------------------------------- *)
(* cancel, had the dropped evaluation given its units back.                 *)
cancel_rollback(r) ==
  /\ pc[r] = "eval"
  /\ pc' = [pc EXCEPT ![r] = "cancelled"]
  /\ tat' = units_after_reject_rollback(r)
  /\ UNCHANGED << configs, registered, nextId, started, now, path,
                  client_ip, uri, idx, cache, res, handledBy, trace >>

cancel(r) ==
  /\ pc[r] = "eval"
  /\ pc' = [pc EXCEPT ![r] = "cancelled"]
  /\ UNCHANGED << configs, registered, nextId, started, tat, now, path,
                  client_ip, uri, idx, cache, res, handledBy, trace >>

Cancel == \E r \in Reqs : cancel(r)

NextCancel == Next \/ Cancel

SpecCancel == Init /\ [][NextCancel]_vars

(* ---------------------------------------------------------------------- *)
(* The registry alone, with room for three rules of three priorities.       *)
(* ---------------------------------------------------------------------- *)
RegMaxRules == 3
RegMaxPriority == 2

AddReg ==
  \E route_name \in RouteNames, len \in 0..RegMaxRules :
    \E ps \in [1..len -> 0..RegMaxPriority], fs \in [1..len -> Filters],
       bs \in [1..len -> 1..MaxBurst] :
      /\ nextId + len - 1 <= RegMaxRules
      /\ add(route_name, Batch(len, ps, fs, bs))

SpecRegistry == Init /\ [][AddReg]_vars

(* ---------------------------------------------------------------------- *)
(* One route with one rule, served over more than one replenishment         *)
(* interval to requests of two client addresses.                            *)
(* ---------------------------------------------------------------------- *)
QNumReqs == 3
QMaxBurst == 2
QMaxTime == 4

QReqs == 1..QNumReqs
QClientIps == {"ip1", "ip2"}
QKeys == {"ip1", "ip2", "k"}
QPaths == {"/a", DUMMY_HANDLER_URI}

(* The state after add("a", [one config]) and the launch.                   *)
InitQuota ==
  /\ \E f \in Filters, n \in 1..QMaxBurst :
       /\ configs = [name \in {"a"} |-> << RateLimitConfig(1, f, 0, n) >>]
       /\ registered = [name \in {"a"} |-> << RateLimitConfig(1, f, 0, n) >>]
  /\ nextId = 2
  /\ started = TRUE
  /\ tat = [c \in {1} |-> [k \in QKeys |-> NoState]]
  /\ now = 0
  /\ pc = [r \in QReqs |-> "idle"]
  /\ path = [r \in QReqs |-> "/a"]
  /\ client_ip = [r \in QReqs |-> NoKey]
  /\ uri = [r \in QReqs |-> "/a"]
  /\ idx = [r \in QReqs |-> 1]
  /\ cache = [r \in QReqs |-> EmptyCell]
  /\ res = [r \in QReqs |-> HandlerResponse(0)]
  /\ handledBy = [r \in QReqs |-> 0]
  /\ trace = [r \in QReqs |-> << >>]

QTick ==
  /\ now < QMaxTime
  /\ now' = now + 1
  /\ UNCHANGED << configs, registered, nextId, started, tat, pc, path,
                  client_ip, uri, idx, cache, res, handledBy, trace >>

QOnRequest ==
  \E r \in QReqs, p \in QPaths, ip \in QClientIps : on_request(r, p, ip)
QCheckRateLimit == \E r \in QReqs : check_rate_limit(r, QMaxTime)
QDispatch == \E r \in QReqs : dispatch(r)
QOnResponse == \E r \in QReqs : on_response(r)

NextQuota ==
  \/ QTick
  \/ QOnRequest
  \/ QCheckRateLimit
  \/ QDispatch
  \/ QOnResponse

SpecQuota == InitQuota /\ [][NextQuota]_vars

(* ---------------------------------------------------------------------- *)
(* Properties                                                               *)
(* ---------------------------------------------------------------------- *)
Evaluated(r) == pc[r] \in {"routing", "responding", "done"}
Answered(r) == pc[r] \in {"responding", "done"}
HasRejection(r) == \E i \in DOMAIN trace[r] : trace[r][i].outcome = "rejected"
LastEntry(r) == trace[r][Len(trace[r])]
RejectedReq(r) == Evaluated(r) /\ HasRejection(r)
AdmittedReq(r) == Evaluated(r) /\ ~HasRejection(r)
HoldsOutcome(cell) == cell.init /\ cell.value.some

(* s is reg sorted by descending priority, configs of equal priority in     *)
(* the order of reg. (Ids grow in the order of registration.)               *)
IsStableSortOf(s, reg) ==
  /\ Len(s) = Len(reg)
  /\ \A i \in DOMAIN reg : \E j \in DOMAIN s : s[j] = reg[i]
  /\ \A i, j \in DOMAIN s :
       i < j => \/ s[i].priority > s[j].priority
                \/ s[i].priority = s[j].priority /\ s[i].id < s[j].id

(* C1: after any sequence of add calls, the rule set stored for every       *)
(* route name is the stable descending-priority sort of all the configs     *)
(* registered for that name, ties in registration order.                    *)
C1_RuleSetIsStableSort ==
  \A n \in DOMAIN configs : IsStableSortOf(configs[n], registered[n])

(* C2: once the rule at position i rejects a request, no later rule is      *)
(* evaluated for it: the rejecting entry is the last one of the request's   *)
(* evaluation, the rules are visited in list order, and every unit taken    *)
(* from a limiter is taken by a request not yet rejected, for its next rule.*)
C2_FirstRejectionStops ==
  /\ [](\A r \in Reqs : \A i \in DOMAIN trace[r] :
          /\ trace[r][i].pos = i
          /\ trace[r][i].outcome = "rejected" =>
               i = Len(trace[r]) /\ pc[r] # "eval")
  /\ [][\A c \in CfgIds, k \in Keys :
          tat'[c][k] # tat[c][k] =>
            \E r \in Reqs :
              /\ pc[r] = "eval" /\ ~HasRejection(r)
              /\ Len(trace'[r]) = Len(trace[r]) + 1
              /\ trace'[r][Len(trace'[r])].id = c
              /\ trace'[r][Len(trace'[r])].key = k
              /\ trace'[r][Len(trace'[r])].outcome = "passed"
              /\ trace'[r][Len(trace'[r])].pos = Len(trace[r]) + 1]_vars

C2_Witness ==
  \E r \in Reqs :
    /\ pc[r] = "done"
    /\ Len(ConfigsFor(path[r])) = 2
    /\ Len(trace[r]) = 1
    /\ trace[r][1].outcome = "rejected"
    /\ tat[ConfigsFor(path[r])[2].id] = [k \in Keys |-> NoState]

(* C3: a request is never rejected by a rule of higher priority after it    *)
(* took a unit from a rule of lower priority of the same route.             *)
C3_HigherPriorityRejectsFirst ==
  \A r \in Reqs : \A i, j \in DOMAIN trace[r] :
    ~ /\ i < j
      /\ trace[r][i].outcome = "passed"
      /\ trace[r][j].outcome = "rejected"
      /\ trace[r][j].priority > trace[r][i].priority

(* C4: a request whose route has no name, whose route name has no rule      *)
(* set, or that matches no route is admitted: no rule is evaluated, the     *)
(* uri is left alone, nothing is stored and the response is the handler's,  *)
(* never a 429.                                                             *)
C4_NoRuleSetAdmits ==
  \A r \in Reqs :
    (pc[r] # "idle" /\ ~HasConfigs(path[r])) =>
      /\ pc[r] # "eval"
      /\ trace[r] = << >>
      /\ uri[r] = path[r]
      /\ ~HoldsOutcome(cache[r])
      /\ Answered(r) =>
           /\ res[r].status # 429
           /\ res[r] = HandlerResponse(FindRoute(path[r]))

C4_Witness ==
  \E r \in Reqs :
    /\ pc[r] = "done"
    /\ path[r] = "/u"
    /\ "a" \in DOMAIN configs
    /\ Len(configs["a"]) > 0
    /\ \E k \in Keys : tat[configs["a"][1].id][k] # NoState

(* C5 as stated: the response of a rejected request is 429, empty, with a   *)
(* Retry-After equal to the whole-millisecond wait time for the clock       *)
(* reading at which the limiter rejected, which is also the stored value.   *)
C5_RetryAfterAtRejectionReading ==
  \A r \in Reqs :
    RejectedReq(r) =>
      LET e == LastEntry(r)
          ms == as_millis(wait_time_from(e.earliest, e.t0))
      IN /\ cache[r] = [init |-> TRUE, value |-> Some(ms)]
         /\ pc[r] = "done" =>
              res[r] = [status |-> 429, retry_after |-> to_string(ms),
                        body |-> "", length |-> 0]

(* C5 amended: the response of a rejected request is 429, empty, with a     *)
(* Retry-After equal to the whole-millisecond wait time measured from the   *)
(* evaluator's own clock reading, taken at or after the reading at which    *)
(* the limiter rejected; the value read by the post-response phase is the   *)
(* value stored in the pre-routing phase.                                   *)
C5_RetryAfterAtEvaluatorReading ==
  \A r \in Reqs :
    RejectedReq(r) =>
      LET e == LastEntry(r)
          ms == as_millis(wait_time_from(e.earliest, e.t1))
      IN /\ e.t1 >= e.t0
         /\ ms <= as_millis(wait_time_from(e.earliest, e.t0))
         /\ cache[r] = [init |-> TRUE, value |-> Some(ms)]
         /\ pc[r] = "done" =>
              res[r] = [status |-> 429, retry_after |-> to_string(ms),
                        body |-> "", length |-> 0]

C5_Witness ==
  \E r \in Reqs :
    /\ pc[r] = "done"
    /\ RejectedReq(r)
    /\ LastEntry(r).t1 > LastEntry(r).t0
    /\ res[r].status = 429
    /\ res[r].retry_after = "0"
    /\ as_millis(wait_time_from(LastEntry(r).earliest, LastEntry(r).t0)) = 1

(* C6: an admitted request is untouched: its uri is the path it came with,  *)
(* no rejection is stored, the handler of its own route runs and the        *)
(* response is the one that handler produced.                               *)
C6_AdmittedUntouched ==
  \A r \in Reqs :
    AdmittedReq(r) =>
      /\ uri[r] = path[r]
      /\ ~HoldsOutcome(cache[r])
      /\ pc[r] \in {"routing", "responding"} => cache[r] = EmptyCell
      /\ Answered(r) =>
           /\ handledBy[r] = FindRoute(path[r])
           /\ res[r] = HandlerResponse(FindRoute(path[r]))

C6_Witness ==
  \E r \in Reqs :
    /\ pc[r] = "done"
    /\ AdmittedReq(r)
    /\ \E i \in DOMAIN trace[r] : trace[r][i].outcome = "passed"
    /\ res[r].status = 200

(* C7: a rejected request has its uri overwritten with the reserved path    *)
(* before it is routed, so the handler of the route it matched never runs.  *)
C7_RejectedNeverHandled ==
  \A r \in Reqs :
    RejectedReq(r) =>
      /\ uri[r] = DUMMY_HANDLER_URI
      /\ handledBy[r] # FindRoute(path[r])
      /\ handledBy[r] = 0

C7_Witness ==
  \E r \in Reqs :
    /\ pc[r] = "done"
    /\ RejectedReq(r)
    /\ path[r] = "/a"
    /\ handledBy[r] = 0

(* C8: a rule whose filter yields no key is skipped: it takes no unit, the  *)
(* evaluation goes on with the remaining rules, and the request is          *)
(* rejected exactly when some rule rejects it.                              *)
C8_NoKeySkipsRule ==
  /\ [](\A r \in Reqs :
          /\ \A i \in DOMAIN trace[r] :
               /\ (trace[r][i].filter = "ip" /\ client_ip[r] = NoKey) =>
                    trace[r][i].outcome = "skipped"
               /\ (trace[r][i].outcome = "skipped" /\ i = Len(trace[r])
                     /\ pc[r] # "eval") =>
                    i = Len(ConfigsFor(path[r]))
          /\ Evaluated(r) =>
               /\ HoldsOutcome(cache[r]) <=> HasRejection(r)
               /\ uri[r] # path[r] <=> HasRejection(r))
  /\ [][\A r \in Reqs :
          (/\ Len(trace'[r]) > Len(trace[r])
           /\ trace'[r][Len(trace'[r])].outcome = "skipped") =>
            tat' = tat]_vars

C8_Witness ==
  \E r \in Reqs :
    /\ pc[r] = "done"
    /\ Len(trace[r]) = 2
    /\ trace[r][1].outcome = "skipped"
    /\ trace[r][2].outcome = "passed"
    /\ res[r].status = 200

(* The state of a request in the two-phase hook.                            *)
Verdict(r) ==
  IF ~Evaluated(r) THEN [state |-> "unevaluated", retry_after |-> 0]
  ELSE IF HoldsOutcome(cache[r])
       THEN [state |-> "rejected", retry_after |-> cache[r].value.retry_after]
       ELSE [state |-> "admitted", retry_after |-> 0]

(* C9: a request is evaluated once, before any handler runs: while it is    *)
(* unevaluated no handler ran and nothing is stored; once it is evaluated   *)
(* its verdict never changes; it has at most one rejection, and a stored    *)
(* rejection is never overwritten.                                          *)
C9_EvaluatedOnce ==
  /\ [](\A r \in Reqs :
          /\ ~Evaluated(r) => (handledBy[r] = 0 /\ ~cache[r].init)
          /\ Cardinality({i \in DOMAIN trace[r] :
                            trace[r][i].outcome = "rejected"}) <= 1
          /\ HoldsOutcome(cache[r]) => RejectedReq(r))
  /\ [][\A r \in Reqs :
          /\ Verdict(r).state # "unevaluated" => Verdict(r)' = Verdict(r)
          /\ HoldsOutcome(cache[r]) => cache'[r] = cache[r]]_vars

C9_Witness ==
  \E r \in Reqs :
    /\ pc[r] = "done"
    /\ Verdict(r).state = "rejected"
    /\ res[r].status = 429

Cells == {EmptyCell, [init |-> TRUE, value |-> None]}
          \cup {[init |-> TRUE, value |-> Some(ms)] : ms \in 0..2}
Responses == {HandlerResponse(i) : i \in 0..Len(Routes)}

(* C10: the post-response phase fails open: a request on the reserved path  *)
(* with no rejection stored keeps the handler's response, and a request on  *)
(* any other path keeps it whatever the cache holds.                        *)
C10_FailOpen ==
  /\ \A r \in Reqs :
       (pc[r] = "done" /\ (uri[r] # DUMMY_HANDLER_URI \/ ~HoldsOutcome(cache[r]))) =>
         /\ res[r] = HandlerResponse(handledBy[r])
         /\ res[r].status # 429
  /\ \A u \in Paths \ {DUMMY_HANDLER_URI}, cell \in Cells, response \in Responses :
       Rewritten(u, cell, response) = response
  /\ \A cell \in Cells, response \in Responses :
       ~cell.value.some => Rewritten(DUMMY_HANDLER_URI, cell, response) = response

C10_Witness ==
  \E r \in Reqs :
    /\ pc[r] = "done"
    /\ path[r] = DUMMY_HANDLER_URI
    /\ cache[r] = [init |-> TRUE, value |-> None]
    /\ res[r] = HandlerResponse(0)

(* ---------------------------------------------------------------------- *)
(* Properties of one rule under load (SpecQuota)                            *)
(* ---------------------------------------------------------------------- *)
TheRule == configs["a"][1]
Checked(r) == trace[r] # << >>
PassedOn(k) ==
  {r \in DOMAIN trace : Checked(r) /\ trace[r][1].key = k
                          /\ trace[r][1].outcome = "passed"}
RejectedOn(k) ==
  {r \in DOMAIN trace : Checked(r) /\ trace[r][1].key = k
                          /\ trace[r][1].outcome = "rejected"}
(* The clock reading of the first admission for key k.                      *)
FirstPass(k) ==
  CHOOSE t \in 0..QMaxTime + 1 :
    /\ \E r \in PassedOn(k) : trace[r][1].t0 = t
    /\ \A r \in PassedOn(k) : trace[r][1].t0 >= t
(* The requests admitted for key k at a clock reading before t / up to t.   *)
PassedBefore(k, t) == {r \in PassedOn(k) : trace[r][1].t0 < t}
PassedUpTo(k, t) == {r \in PassedOn(k) : trace[r][1].t0 <= t}

(* What a rejected request is answered.                                     *)
RejectionResponse(r) ==
  [status |-> 429,
   retry_after |-> to_string(as_millis(wait_time_from(trace[r][1].earliest,
                                                     trace[r][1].t1))),
   body |-> "", length |-> 0]

(* C11 as stated: with one rule of quota N per window and a fixed key, no   *)
(* request is rejected before N were admitted, at most N are admitted       *)
(* within one window (N replenishment intervals) of the first admission,    *)
(* and a rejected request is answered 429, empty, with the remaining wait   *)
(* in milliseconds.                                                         *)
C11_FirstNPerWindow ==
  TheRule.filter = "fixed" =>
    /\ \A r \in RejectedOn("k") :
         /\ Cardinality(PassedUpTo("k", trace[r][1].t0)) >= TheRule.burst
         /\ pc[r] = "done" => res[r] = RejectionResponse(r)
    /\ PassedOn("k") # {} =>
         Cardinality(PassedBefore("k",
             FirstPass("k") + TheRule.burst * ReplenishTicks)) <= TheRule.burst

(* C11 amended: the same, within one replenishment interval (window / N)    *)
(* of the first admission; for N = 1 that interval is the window.           *)
C11_FirstNPerInterval ==
  TheRule.filter = "fixed" =>
    /\ \A r \in RejectedOn("k") :
         /\ Cardinality(PassedUpTo("k", trace[r][1].t0)) >= TheRule.burst
         /\ pc[r] = "done" => res[r] = RejectionResponse(r)
    /\ PassedOn("k") # {} =>
         Cardinality(PassedBefore("k", FirstPass("k") + ReplenishTicks))
           <= TheRule.burst

C11_Witness ==
  /\ TheRule.filter = "fixed"
  /\ TheRule.burst = 2
  /\ Cardinality(PassedOn("k")) = 2
  /\ \E r \in RejectedOn("k") :
       /\ pc[r] = "done"
       /\ trace[r][1].t0 < FirstPass("k") + ReplenishTicks
       /\ res[r].status = 429
       /\ res[r].retry_after = "1"

(* ---------------------------------------------------------------------- *)
(* Properties of the registry (SpecRegistry)                                *)
(* ---------------------------------------------------------------------- *)
Priorities(s) == [i \in DOMAIN s |-> s[i].priority]
Ids(s) == [i \in DOMAIN s |-> s[i].id]

(* The rule list of Scenario D on the scale of the model: a config of       *)
(* priority 1, then a batch of priorities 2 and 0.                          *)
ScenarioD ==
  << RateLimitConfig(1, "ip", 1, 1) >>
    \o << RateLimitConfig(2, "ip", 2, 1), RateLimitConfig(3, "ip", 0, 1) >>

(* C12: add on an already registered route name leaves that name with the   *)
(* stable descending-priority sort of everything registered for it so far,  *)
(* the new batch behind the configs registered before; priorities [1] then  *)
(* [2, 0] give [2, 1, 0].                                                   *)
C12_AddResortsCombined ==
  /\ [][\A n \in DOMAIN configs :
          (configs'[n] # configs[n] \/ registered'[n] # registered[n]) =>
            /\ SubSeq(registered'[n], 1, Len(registered[n])) = registered[n]
            /\ IsStableSortOf(configs'[n], registered'[n])]_vars
  /\ [](Priorities(sort_by_priority(ScenarioD)) = << 2, 1, 0 >>)

C12_Witness ==
  /\ "a" \in DOMAIN configs
  /\ Ids(registered["a"]) = << 1, 2, 3 >>
  /\ Priorities(registered["a"]) = << 1, 2, 0 >>
  /\ Priorities(configs["a"]) = << 2, 1, 0 >>
  /\ Ids(configs["a"]) = << 2, 1, 3 >>

(* ---------------------------------------------------------------------- *)
(* Properties of the limiter states                                         *)
(* ---------------------------------------------------------------------- *)
(* The unit entry e records is still taken from its limiter.                *)
StillConsumed(e) ==
  /\ tat[e.id][e.key] # NoState
  /\ tat[e.id][e.key] >= e.t0 + ReplenishTicks

(* The step appends an entry with the given outcome to the trace of r.      *)
Appends(r, outcome) ==
  /\ Len(trace'[r]) = Len(trace[r]) + 1
  /\ trace'[r][Len(trace'[r])].outcome = outcome

(* C13: no rollback: the step in which a rule rejects a request changes no  *)
(* limiter state, no limiter state ever goes back, and the unit of every    *)
(* rule that admitted a request stays taken, whatever happens to the        *)
(* request afterwards.                                                      *)
C13_NoRollback ==
  /\ [](\A r \in Reqs : \A i \in DOMAIN trace[r] :
          trace[r][i].outcome = "passed" => StillConsumed(trace[r][i]))
  /\ [][/\ \A r \in Reqs : Appends(r, "rejected") => tat' = tat
        /\ \A c \in CfgIds, k \in Keys : tat'[c][k] >= tat[c][k]]_vars

C13_Witness ==
  \E r \in Reqs :
    /\ pc[r] = "done"
    /\ res[r].status = 429
    /\ Len(trace[r]) = 2
    /\ trace[r][1].outcome = "passed"
    /\ trace[r][2].outcome = "rejected"
    /\ tat[trace[r][1].id][trace[r][1].key] = trace[r][1].t0 + 2 * ReplenishTicks

(* ---------------------------------------------------------------------- *)
(* Properties of requests handled side by side                              *)
(* ---------------------------------------------------------------------- *)
(* C14: under any interleaving, the response of a request is a 429 with     *)
(* wait time W exactly when its own evaluation rejected it with W; what is  *)
(* stored for a request is its own rejection; only a step of the request    *)
(* itself changes its uri, its cache or its response; and no step of a      *)
(* served request changes the registry.                                     *)
C14_OwnRejectionOnly ==
  /\ [](\A r \in DOMAIN pc :
          /\ HoldsOutcome(cache[r]) =>
               /\ HasRejection(r)
               /\ cache[r].value = Some(LastEntry(r).retry_after)
          /\ pc[r] = "done" =>
               /\ res[r].status = 429 <=> HasRejection(r)
               /\ HasRejection(r) =>
                    res[r].retry_after = to_string(LastEntry(r).retry_after))
  /\ [][/\ \A r \in DOMAIN pc :
             (uri'[r] # uri[r] \/ cache'[r] # cache[r] \/ res'[r] # res[r]) =>
               pc'[r] # pc[r]
        /\ \A r, q \in DOMAIN pc : (pc'[r] # pc[r] /\ pc'[q] # pc[q]) => r = q
        /\ started => (configs' = configs /\ registered' = registered
                         /\ nextId' = nextId)]_vars

C14_Witness ==
  \E r, q, s \in DOMAIN pc :
    /\ r # q
    /\ pc[s] = "done" /\ path[s] = DUMMY_HANDLER_URI /\ res[s].status = 404
    /\ trace[r] # << >> /\ trace[q] # << >>
    /\ LastEntry(r).t0 <= LastEntry(q).t0
    /\ pc[r] = "done" /\ pc[q] = "done"
    /\ path[r] = "/a" /\ path[q] = "/a"
    /\ res[r].status = 429
    /\ res[r].retry_after = "1"
    /\ LastEntry(r).retry_after = 1
    /\ res[q].status = 200
    /\ trace[q] # << >>
    /\ LastEntry(q).outcome = "passed"

(* ---------------------------------------------------------------------- *)
(* Properties of registration and of the evaluation loop                    *)
(* ---------------------------------------------------------------------- *)
LenOf(f, n) == IF n \in DOMAIN f THEN Len(f[n]) ELSE 0

(* C15: the registry only grows and add is local: a step that changes the   *)
(* registry lengthens the rule set of one name by exactly the size of the   *)
(* batch, keeps every config that name had, and leaves every other name as  *)
(* it was; configs are never merged, so a rule registered twice is two      *)
(* entries; and an admitted request has evaluated every entry of its rule   *)
(* set exactly once, in list order.                                         *)
C15_RegistryOnlyGrows ==
  /\ [][(configs' # configs \/ nextId' # nextId) =>
          \E n \in DOMAIN configs' :
            /\ DOMAIN configs' = DOMAIN configs \cup {n}
            /\ Len(configs'[n]) = LenOf(configs, n) + (nextId' - nextId)
            /\ \A i \in 1..LenOf(configs, n) :
                 \E j \in DOMAIN configs'[n] : configs'[n][j] = configs[n][i]
            /\ \A m \in DOMAIN configs \ {n} : configs'[m] = configs[m]]_vars
  /\ [](/\ \A n \in DOMAIN configs : \A i, j \in DOMAIN configs[n] :
             configs[n][i].id = configs[n][j].id => i = j
        /\ \A n, m \in DOMAIN configs :
             \A i \in DOMAIN configs[n], j \in DOMAIN configs[m] :
               configs[n][i].id = configs[m][j].id => n = m
        /\ \A r \in Reqs :
             AdmittedReq(r) =>
               /\ Len(trace[r]) = Len(ConfigsFor(path[r]))
               /\ \A i \in DOMAIN trace[r] :
                    trace[r][i].id = ConfigsFor(path[r])[i].id)

C15_Witness ==
  /\ "a" \in DOMAIN configs
  /\ "b" \in DOMAIN configs
  /\ Len(configs["a"]) = 2
  /\ [configs["a"][1] EXCEPT !.id = 0] = [configs["a"][2] EXCEPT !.id = 0]
  /\ \E r \in Reqs :
       /\ pc[r] = "done"
       /\ Len(trace[r]) = 2
       /\ trace[r][1].outcome = "passed" /\ trace[r][2].outcome = "passed"
       /\ trace[r][1].id # trace[r][2].id
       /\ tat[trace[r][1].id][trace[r][1].key] # NoState
       /\ tat[trace[r][2].id][trace[r][2].key] # NoState

(* ---------------------------------------------------------------------- *)
(* Properties of cancellation (SpecCancel)                                  *)
(* ---------------------------------------------------------------------- *)
(* C16: a request cancelled while its evaluation waits for a key keeps the  *)
(* units it took from the rules before; nothing is stored for it, its uri   *)
(* is the path it came with and no handler runs for it; the step that       *)
(* cancels it changes no limiter and nothing of any other request.          *)
C16_CancelKeepsUnits ==
  /\ [](\A r \in Reqs :
          pc[r] = "cancelled" =>
            /\ \A i \in DOMAIN trace[r] :
                 /\ trace[r][i].outcome # "rejected"
                 /\ trace[r][i].outcome = "passed" => StillConsumed(trace[r][i])
            /\ Len(trace[r]) < Len(ConfigsFor(path[r]))
            /\ cache[r] = EmptyCell
            /\ uri[r] = path[r]
            /\ handledBy[r] = 0
            /\ res[r] = HandlerResponse(0))
  /\ [][\A r \in Reqs :
          (pc'[r] = "cancelled" /\ pc[r] # "cancelled") =>
            /\ pc[r] = "eval"
            /\ tat' = tat
            /\ configs' = configs
            /\ trace' = trace
            /\ \A q \in Reqs \ {r} :
                 /\ pc'[q] = pc[q] /\ uri'[q] = uri[q] /\ cache'[q] = cache[q]
                 /\ res'[q] = res[q] /\ idx'[q] = idx[q]]_vars

C16_Witness ==
  \E r, q \in Reqs :
    /\ pc[r] = "cancelled"
    /\ Len(trace[r]) = 1
    /\ trace[r][1].outcome = "passed"
    /\ pc[q] = "done"
    /\ Len(trace[q]) = 1
    /\ trace[q][1].outcome = "rejected"
    /\ trace[q][1].id = trace[r][1].id
    /\ trace[q][1].key = trace[r][1].key
    /\ res[q].status = 429

(* ---------------------------------------------------------------------- *)
(* Properties of the wait time (SpecQuota)                                  *)
(* ---------------------------------------------------------------------- *)
(* No request was admitted for the key of r between the check of r and a    *)
(* check at clock reading t.                                                *)
QuietUntil(r, t) ==
  \A q \in PassedOn(trace[r][1].key) :
    trace[q][1].t0 < trace[r][1].t0 \/ trace[q][1].t0 > t

(* C17: the Retry-After of a rejected request is the whole-millisecond      *)
(* truncation of the wait measured from a clock reading taken after the     *)
(* rejecting check, and a request for the same key that comes no earlier    *)
(* than Retry-After milliseconds after that reading, with no admission for  *)
(* the key in between, is not rejected.                                     *)
C17_RetryAfterSuffices ==
  \A r \in DOMAIN trace :
    (Checked(r) /\ trace[r][1].outcome = "rejected") =>
      LET e == trace[r][1] IN
        /\ e.t1 >= e.t0
        /\ e.retry_after = as_millis(wait_time_from(e.earliest, e.t1))
        /\ \A q \in DOMAIN trace \ {r} :
             (/\ Checked(q)
              /\ trace[q][1].key = e.key
              /\ trace[q][1].t0 >= e.t1 + e.retry_after * TicksPerMs
              /\ QuietUntil(r, trace[q][1].t0)) =>
               trace[q][1].outcome # "rejected"

(* ---------------------------------------------------------------------- *)
(* Properties of requests racing for one key (SpecQuota)                    *)
(* ---------------------------------------------------------------------- *)
(* The verdicts for key k follow from the admissions for k alone: the       *)
(* limiter holds a state for k exactly when a request was admitted for k,   *)
(* and a request is rejected for k only after N were admitted for k.        *)
OwnConsumptionOnly(k) ==
  /\ tat[TheRule.id][k] = NoState <=> PassedOn(k) = {}
  /\ \A r \in RejectedOn(k) :
       Cardinality(PassedUpTo(k, trace[r][1].t0)) >= TheRule.burst

(* C18 as stated: with one rule of quota N per window keyed by the client   *)
(* address, however the requests interleave, at most N requests of one      *)
(* address are admitted within one window (N replenishment intervals) of    *)
(* the first, and the verdicts for an address follow from the admissions    *)
(* for that address alone.                                                  *)
C18_AtMostNPerWindow ==
  TheRule.filter = "ip" =>
    \A k \in QClientIps :
      /\ OwnConsumptionOnly(k)
      /\ PassedOn(k) # {} =>
           Cardinality(PassedBefore(k,
               FirstPass(k) + TheRule.burst * ReplenishTicks)) <= TheRule.burst

(* C18 amended: the same, with at most N admitted within one replenishment  *)
(* interval (window / N) of the first admission for the address.            *)
C18_AtMostNPerInterval ==
  TheRule.filter = "ip" =>
    \A k \in QClientIps :
      /\ OwnConsumptionOnly(k)
      /\ PassedOn(k) # {} =>
           Cardinality(PassedBefore(k, FirstPass(k) + ReplenishTicks))
             <= TheRule.burst

C18_Witness ==
  /\ TheRule.filter = "ip"
  /\ TheRule.burst = 1
  /\ \E r, q, s \in DOMAIN trace :
       /\ r \in PassedOn("ip1")
       /\ q \in RejectedOn("ip1")
       /\ s \in PassedOn("ip2")
       /\ trace[s][1].t0 >= trace[q][1].t0
       /\ trace[s][1].t0 < FirstPass("ip1") + ReplenishTicks
       /\ pc[q] = "done" /\ res[q].status = 429
       /\ pc[s] = "done" /\ res[s].status = 200

(* ---------------------------------------------------------------------- *)
(* Termination of the evaluation                                            *)
(* ---------------------------------------------------------------------- *)
(* The entries of request r in which a unit was taken.                      *)
UnitsTaken(r) == {i \in DOMAIN trace[r] : trace[r][i].outcome = "passed"}

(* C19: the evaluation of a request visits the rules of its route in list   *)
(* order, each at most once: entry i of its trace is the rule at position   *)
(* i, a running evaluation has visited fewer rules than the route has and   *)
(* stands at the next one, every step of it visits one more rule, so it     *)
(* ends after at most n steps, and it does end when its key filters         *)
(* answer; each rule's key filter is asked at most once, and at most one    *)
(* unit per rule, n in total, is taken.                                     *)
C19_EachRuleAtMostOnce ==
  /\ [](\A r \in Reqs :
          LET cfgs == ConfigsFor(path[r]) IN
            /\ Len(trace[r]) <= Len(cfgs)
            /\ \A i \in DOMAIN trace[r] :
                 /\ trace[r][i].pos = i
                 /\ trace[r][i].id = cfgs[i].id
            /\ \A i, j \in DOMAIN trace[r] :
                 trace[r][i].id = trace[r][j].id => i = j
            /\ Cardinality(UnitsTaken(r)) <= Len(cfgs)
            /\ pc[r] = "eval" =>
                 /\ idx[r] = Len(trace[r]) + 1
                 /\ idx[r] <= Len(cfgs))
  /\ [][\A r \in Reqs :
          /\ (pc[r] = "eval" /\ pc'[r] # "cancelled"
                /\ <<pc[r], idx[r], trace[r]>>' # <<pc[r], idx[r], trace[r]>>) =>
               /\ Len(trace'[r]) = Len(trace[r]) + 1
               /\ idx'[r] = idx[r] + 1
          /\ pc[r] \notin {"idle", "eval"} => trace'[r] = trace[r]]_vars
  /\ \A r \in Reqs : (pc[r] = "eval") ~> Evaluated(r)

C19_Witness ==
  \E r \in Reqs :
    /\ pc[r] = "done"
    /\ Len(ConfigsFor(path[r])) = 2
    /\ Len(trace[r]) = 2
    /\ Cardinality(UnitsTaken(r)) = 2
    /\ trace[r][1].id # trace[r][2].id
    /\ \E q \in Reqs \ {r} : pc[q] = "done" /\ Len(trace[q]) = 1
                              /\ trace[q][1].outcome = "rejected"
====
